---- MODULE Spec2Model ----
(***************************************************************************)
(* Model of the sidewinderd bootstrap and lifecycle (src/src/main.cpp).    *)
(*                                                                         *)
(* Several instances of the daemon run main() against one file system.     *)
(* Every system call of main(), create_pid() and close_pid() is one step   *)
(* of an instance, so the instances interleave between system calls, and   *)
(* SIGINT/SIGTERM can be delivered between any two steps.                  *)
(***************************************************************************)
EXTENDS Integers, Sequences, FiniteSets, TLC

(* ------------------------------ bounds -------------------------------- *)

\* The process slots: at most two instances of the daemon run at a time.
Procs == {1, 2}

\* Total number of instances launched over a behaviour.
MaxRuns == 3

\* Total number of signals delivered over a behaviour.
MaxSignals == 2

\* A PID file is referenced by the path and by at most one descriptor per
\* instance, so one inode more than there are slots is always enough.
Inodes == 1..(Cardinality(Procs) + 1)

(* --------------------------- the environment --------------------------- *)

\* create_pid returns -1 on failure; pid_fd keeps that value until a
\* successful open.
NoFd == -1

\* No file at a path.
NoFile == 0

\* uid and gid of the superuser, the elevated identity.
RootId == 0

Sigs == {"SIGINT", "SIGTERM"}

\* The diagnostics of create_pid (lines 67 and 72).
PidNotCreated == "PID file could not be created."
PidNotLocked ==
    "Could not lock PID file, another instance is already running. Terminating."

\* The config file setup_config reads by default (line 86), and the one
\* the option --config can name.
DefaultConfigFile == "/etc/sidewinderd.conf"
AltConfigFile == "/etc/sidewinderd-alt.conf"
ConfigPaths == {DefaultConfigFile, AltConfigFile}

\* What getopt_long returns for an element of the command line (line 145):
\* the option character, and the argument of --config in optarg.
Option(opt, optarg) == [opt |-> opt, optarg |-> optarg]
Options ==
    {Option("c", AltConfigFile), Option("d", ""), Option("v", ""),
     Option(":", ""), Option("?", "")}

\* Lines 146-167: what the switch prints for an option.
optionLine(opt) ==
    CASE opt = "c" -> "Option --config"
      [] opt = "d" -> "Option --daemon"
      [] opt = "v" -> "Option --verbose"
      [] opt = ":" -> "Missing argument."
      [] opt = "?" -> "Unrecognized option."
      [] OTHER -> "Unexpected error."

DefaultPidFile == "/var/run/sidewinderd.pid"
AltPidFile == "/home/alice/sw.pid"
PidPaths == {DefaultPidFile, AltPidFile}

\* The identity database getpwnam consults.
Passwd ==
    [root  |-> [pw_name |-> "root",  pw_uid |-> 0,    pw_gid |-> 0,    pw_dir |-> "/root"],
     alice |-> [pw_name |-> "alice", pw_uid |-> 1000, pw_gid |-> 1000, pw_dir |-> "/home/alice"]]

\* The null pointer getpwnam returns for a user that does not exist.
NULL == [pw_name |-> "", pw_uid |-> -1, pw_gid |-> -1, pw_dir |-> ""]

getpwnam(user) == IF user \in DOMAIN Passwd THEN Passwd[user] ELSE NULL

\* A process may create or remove entries of a directory it owns; the
\* superuser may do so in every directory.
MayWrite(uid, owner) == uid = RootId \/ uid = owner

\* Owner of the directory that holds a PID file: the home of alice for
\* AltPidFile, a system directory otherwise.
PidDirOwner(path) == IF path = AltPidFile THEN Passwd["alice"].pw_uid ELSE RootId

\* Owner of an initial directory: a home belongs to its user.
HomeOwner(dir) ==
    IF \E u \in DOMAIN Passwd : Passwd[u].pw_dir = dir
    THEN Passwd[CHOOSE u \in DOMAIN Passwd : Passwd[u].pw_dir = dir].pw_uid
    ELSE RootId

Homes == {Passwd[u].pw_dir : u \in DOMAIN Passwd}
WorkdirOf(home) == home \o "/.sidewinderd"
Workdirs == {WorkdirOf(h) : h \in Homes}

\* No directory at a path (dirs maps a path to the uid owning the directory).
NoDir == -1

(* --------------------------- configuration ---------------------------- *)

\* A libconfig::Config root group: the settings by type, each a function
\* from the names present to their values.
NoSettings == [k \in {} |-> ""]
NoInts == [k \in {} |-> 0]
NoBools == [k \in {} |-> FALSE]
EmptyConfig == [str |-> NoSettings, int |-> NoInts, bool |-> NoBools]

\* root.exists(name)
exists(cfg, name) ==
    name \in (DOMAIN cfg.str \cup DOMAIN cfg.int \cup DOMAIN cfg.bool)

\* root.add(name, TypeString) = value, and the like.
addString(cfg, name, value) == [cfg EXCEPT !.str = (name :> value) @@ @]
addInt(cfg, name, value) == [cfg EXCEPT !.int = (name :> value) @@ @]
addBoolean(cfg, name, value) == [cfg EXCEPT !.bool = (name :> value) @@ @]

\* config.lookup(name) converted to std::string succeeds only for a
\* setting of string type; otherwise SettingTypeException is thrown.
isString(cfg, name) == name \in DOMAIN cfg.str

\* A setup_config that sets the user without asking whether one is set.
WithUser_always(cfg) == addString(cfg, "user", "root")

\* Lines 98-112 of setup_config: every missing key gets its default.
WithUser(cfg) ==
    IF exists(cfg, "user") THEN cfg ELSE addString(cfg, "user", "root")
WithProfile_zero(cfg) ==
    IF exists(cfg, "profile") THEN cfg ELSE addInt(cfg, "profile", 0)
WithProfile(cfg) ==
    IF exists(cfg, "profile") THEN cfg ELSE addInt(cfg, "profile", 1)
WithCaptureDelays(cfg) ==
    IF exists(cfg, "capture_delays") THEN cfg
    ELSE addBoolean(cfg, "capture_delays", TRUE)
WithPidFile(cfg) ==
    IF exists(cfg, "pid-file") THEN cfg
    ELSE addString(cfg, "pid-file", DefaultPidFile)
FillDefaults(cfg) == WithPidFile(WithCaptureDelays(WithProfile(WithUser(cfg))))

\* config->readFile: the settings of a well-formed file. A file that cannot
\* be opened throws FileIOException and the Config stays empty; a malformed
\* file throws ParseException with the settings in place that were parsed
\* before the error (file.cfg holds those).
readFile(file) == IF file.kind = "unreadable" THEN EmptyConfig ELSE file.cfg

\* config->writeFile succeeds when the file system is writable and the
\* caller may write under /etc; otherwise FileIOException.
canWriteFile(file, uid) == ~file.readonly /\ uid = RootId

\* Lines 89-93 and 116-118: what the catch clauses report (of the parse
\* diagnostic the leading words, without file, line and message).
readDiagnostic(file) ==
    IF file.kind = "unreadable" THEN <<"I/O error while reading file.">>
    ELSE IF file.kind = "malformed" THEN <<"Parse error">>
    ELSE <<>>

writeDiagnostic(file, uid) ==
    IF canWriteFile(file, uid) THEN <<>>
    ELSE <<"I/O error while writing file.">>

\* A writeFile that is skipped when no default was added to what was read.
writeFile_ifDefaultAdded(file, cfg, uid) ==
    IF canWriteFile(file, uid) /\ cfg # readFile(file)
    THEN [kind |-> "ok", cfg |-> cfg, readonly |-> FALSE]
    ELSE file

\* Lines 114-118: config->writeFile replaces the file by the settings of the
\* Config; a failed write leaves the file as it was.
writeFile(file, cfg, uid) ==
    IF canWriteFile(file, uid)
    THEN [kind |-> "ok", cfg |-> cfg, readonly |-> FALSE]
    ELSE file

(* ------------------------------- state -------------------------------- *)

VARIABLES
    \* the file system and the launcher
    files,          \* PID path -> inode of the file there, or NoFile
    fowner,         \* inode -> uid of the owner of the file
    flocks,         \* inode -> the processes holding flock's exclusive lock
    dirs,           \* working directory path -> owner uid, or NoDir
    disk,           \* config path -> the file there: [kind, cfg, readonly]
    cmdlines,       \* the command lines the instances are launched with
    runs,           \* number of instances launched so far
    signals,        \* number of signals delivered so far
    \* one instance of main() per process slot
    pc,             \* position in main(), create_pid() and close_pid()
    state,          \* sidewinderd::state, the atomic running flag
    handlers,       \* the signals whose disposition is sig_handler
    resethand,      \* whether sa_flags happens to hold SA_RESETHAND
    argv,           \* the options getopt_long has yet to return
    config_file,    \* std::string config_file, "" while empty
    config,         \* libconfig::Config config
    pid_fd,         \* inode pid_fd refers to, or NoFd
    pw,             \* struct passwd *pw
    euid,           \* effective user id
    egid,           \* effective group id
    cwd,            \* current directory
    kbd,            \* whether Keyboard kbd has been constructed
    status,         \* how the instance ended
    out,            \* the diagnostics written to std::cout and std::cerr
    \* history, read by the properties only
    did,            \* the operations the instance performed, in order
    loaded,         \* what readFile delivered, until setup_config returns
    caught,         \* sig_handler has stored 0 into the flag in this run
    listens         \* listen_key calls begun since then, counted up to 2

vars == <<files, fowner, flocks, dirs, disk, cmdlines, runs, signals, pc, state,
          handlers, resethand, argv, config_file, config, pid_fd, pw, euid,
          egid, cwd, kbd, status, out, did, loaded, caught, listens>>

fsVars == <<files, fowner, flocks, dirs, disk, cmdlines>>
idVars == <<euid, egid, cwd, pw>>
sigVars == <<state, handlers, resethand, caught>>

\* Positions of an instance that is executing.
Live == {"sigaction_int", "sigaction_term", "set_state", "getopt",
         "readFile", "writeFile", "open", "flock", "flock_failed",
         "exit_failure", "getpwnam", "setegid", "seteuid", "mkdir", "chdir",
         "kbd", "loop", "listen_key", "unlock", "close", "unlink", "return"}

\* Inodes that some path or some descriptor still refers to.
InUse(fs, fds) ==
    {fs[f] : f \in PidPaths} \cup {fds[p] : p \in Procs}

\* The inode open(O_CREAT) allocates for a new file.
FreshInode(fs, fds) ==
    CHOOSE i \in Inodes : i \notin InUse(fs, fds) /\
        \A j \in Inodes : j \notin InUse(fs, fds) => i <= j

\* The kernel drops the lock of an open file description when its last
\* descriptor is closed, on close() and on process death alike.
Released(locks, p, fd) ==
    IF fd \in Inodes THEN [locks EXCEPT ![fd] = @ \ {p}] ELSE locks

\* Appends an operation to the history; repeated listen_key calls, and the
\* repeated getopt_long calls of the option loop, are kept as one entry so
\* that the history stays bounded.
Logged(log, op) ==
    IF op \in {"listen_key", "getopt"} /\ Len(log) > 0 /\ log[Len(log)] = op
    THEN log ELSE Append(log, op)

StartIds == {RootId, Passwd["alice"].pw_uid}

(* -------------------------------- Init -------------------------------- *)

\* The config files of the lifecycle runs: no user (the default applies),
\* an unprivileged user, a user that does not exist, and a user or a PID
\* file that is a number instead of a string, and a PID file in the home of
\* alice, which an instance launched by alice can create.
LifecycleConfigs ==
    {EmptyConfig,
     addString(EmptyConfig, "user", "alice"),
     addString(EmptyConfig, "user", "ghost"),
     addInt(EmptyConfig, "user", 5),
     addInt(EmptyConfig, "pid-file", 5),
     addString(EmptyConfig, "pid-file", AltPidFile)}

DiskFiles == [kind : {"ok"}, cfg : LifecycleConfigs, readonly : {FALSE}]

\* No file at a config path: readFile fails as for a file that cannot be
\* read, and writeFile creates the file.
AbsentFile == [kind |-> "unreadable", cfg |-> EmptyConfig, readonly |-> FALSE]

\* The config files when the file at path is `file' and no other exists.
OnlyFile(path, file) ==
    [f \in ConfigPaths |-> IF f = path THEN file ELSE AbsentFile]

InitProcs ==
    /\ runs = 0
    /\ signals = 0
    /\ pc = [p \in Procs |-> "idle"]
    /\ state = [p \in Procs |-> FALSE]
    /\ handlers = [p \in Procs |-> {}]
    /\ resethand = [p \in Procs |-> FALSE]
    /\ argv = [p \in Procs |-> <<>>]
    /\ config_file = [p \in Procs |-> ""]
    /\ config = [p \in Procs |-> EmptyConfig]
    /\ loaded = [p \in Procs |-> EmptyConfig]
    /\ pid_fd = [p \in Procs |-> NoFd]
    /\ pw = [p \in Procs |-> NULL]
    /\ euid = [p \in Procs |-> RootId]
    /\ egid = [p \in Procs |-> RootId]
    /\ cwd = [p \in Procs |-> "/"]
    /\ kbd = [p \in Procs |-> FALSE]
    /\ status = [p \in Procs |-> "none"]
    /\ out = [p \in Procs |-> <<>>]
    /\ did = [p \in Procs |-> <<>>]
    /\ caught = [p \in Procs |-> FALSE]
    /\ listens = [p \in Procs |-> 0]

InitFs ==
    /\ files = [f \in PidPaths |-> NoFile]
    /\ fowner = [i \in Inodes |-> RootId]
    /\ flocks = [i \in Inodes |-> {}]
    /\ dirs = [d \in Workdirs |-> NoDir]

\* The lifecycle runs are launched without options, on the default config
\* file.
Init ==
    /\ InitFs
    /\ InitProcs
    /\ cmdlines = {<<>>}
    /\ \E file \in DiskFiles : disk = OnlyFile(DefaultConfigFile, file)

(* ------------------------------ actions ------------------------------- *)

\* The instance in slot p ends: main returns, or the process dies. The
\* kernel closes pid_fd, which releases a lock still held through it; the
\* PID file itself stays. Of the ended process the exit status and the
\* output remain.
Terminate(p, how, said) ==
    /\ pc' = [pc EXCEPT ![p] = "exited"]
    /\ status' = [status EXCEPT ![p] = how]
    /\ out' = [out EXCEPT ![p] = @ \o said]
    /\ pid_fd' = [pid_fd EXCEPT ![p] = NoFd]
    /\ flocks' = Released(flocks, p, pid_fd[p])
    /\ state' = [state EXCEPT ![p] = FALSE]
    /\ handlers' = [handlers EXCEPT ![p] = {}]
    /\ resethand' = [resethand EXCEPT ![p] = FALSE]
    /\ argv' = [argv EXCEPT ![p] = <<>>]
    /\ config_file' = [config_file EXCEPT ![p] = ""]
    /\ config' = [config EXCEPT ![p] = EmptyConfig]
    /\ loaded' = [loaded EXCEPT ![p] = EmptyConfig]
    /\ pw' = [pw EXCEPT ![p] = NULL]
    /\ euid' = [euid EXCEPT ![p] = RootId]
    /\ egid' = [egid EXCEPT ![p] = RootId]
    /\ cwd' = [cwd EXCEPT ![p] = "/"]
    /\ kbd' = [kbd EXCEPT ![p] = FALSE]
    /\ did' = [did EXCEPT ![p] = <<>>]
    /\ caught' = [caught EXCEPT ![p] = FALSE]
    /\ listens' = [listens EXCEPT ![p] = 0]
    /\ UNCHANGED runs

\* The instance moves on to the next statement, having performed op and
\* written the lines said.
Goto(p, next, op, said) ==
    /\ pc' = [pc EXCEPT ![p] = next]
    /\ did' = [did EXCEPT ![p] = Logged(@, op)]
    /\ out' = [out EXCEPT ![p] = @ \o said]
    /\ UNCHANGED <<status, runs, signals>>

\* A new instance is launched in a free slot, as root or as an ordinary
\* user, with one of the command lines. The flag is zero-initialised
\* (line 47).
Start(p) ==
    /\ pc[p] \in {"idle", "exited"}
    /\ runs < MaxRuns
    /\ runs' = runs + 1
    /\ \E id \in StartIds :
        /\ euid' = [euid EXCEPT ![p] = id]
        /\ egid' = [egid EXCEPT ![p] = id]
    /\ pc' = [pc EXCEPT ![p] = "sigaction_int"]
    /\ status' = [status EXCEPT ![p] = "none"]
    /\ out' = [out EXCEPT ![p] = <<>>]
    /\ \E cmdline \in cmdlines : argv' = [argv EXCEPT ![p] = cmdline]
    /\ UNCHANGED <<fsVars, signals, state, handlers, resethand, config,
                   config_file, loaded, pid_fd, pw, cwd, kbd, did, caught,
                   listens>>

\* Lines 123-127: sigaction(SIGINT, &action, NULL). Only sa_handler of
\* `action' is set, so sa_flags holds whatever the stack held: the handlers
\* are installed with or without SA_RESETHAND.
sigaction_int(p) ==
    /\ pc[p] = "sigaction_int"
    /\ \E flag \in BOOLEAN : resethand' = [resethand EXCEPT ![p] = flag]
    /\ handlers' = [handlers EXCEPT ![p] = @ \cup {"SIGINT"}]
    /\ Goto(p, "sigaction_term", "sigaction", <<>>)
    /\ UNCHANGED <<fsVars, idVars, state, caught, config, argv, config_file,
                   loaded, pid_fd, kbd, listens>>

\* Line 128: sigaction(SIGTERM, &action, NULL).
sigaction_term(p) ==
    /\ pc[p] = "sigaction_term"
    /\ handlers' = [handlers EXCEPT ![p] = @ \cup {"SIGTERM"}]
    /\ Goto(p, "set_state", "sigaction", <<>>)
    /\ UNCHANGED <<fsVars, idVars, state, resethand, caught, config, argv,
                   config_file, loaded, pid_fd, kbd, listens>>

\* Line 130: sidewinderd::state = 1.
set_state(p) ==
    /\ pc[p] = "set_state"
    /\ state' = [state EXCEPT ![p] = TRUE]
    /\ Goto(p, "getopt", "set_state", <<>>)
    /\ UNCHANGED <<fsVars, idVars, handlers, resethand, caught, config, argv,
                   config_file, loaded, pid_fd, kbd, listens>>

\* Lines 145-168: one getopt_long call of the option loop. With the command
\* line exhausted the loop ends; otherwise the switch prints the line of the
\* option, and --config stores its argument in config_file. The default
\* case returns EXIT_FAILURE.
main_getopt(p) ==
    /\ pc[p] = "getopt"
    /\ IF argv[p] = <<>>
       THEN /\ Goto(p, "readFile", "getopt", <<>>)
            /\ UNCHANGED <<argv, config_file, config, loaded, pid_fd, flocks,
                           idVars, sigVars, kbd, listens>>
       ELSE LET option == Head(argv[p]) IN
            IF option.opt \in {"c", "d", "v", ":", "?"}
            THEN /\ argv' = [argv EXCEPT ![p] = Tail(@)]
                 /\ config_file' = [config_file EXCEPT ![p] =
                        IF option.opt = "c" THEN option.optarg ELSE @]
                 /\ Goto(p, "getopt", "getopt", <<optionLine(option.opt)>>)
                 /\ UNCHANGED <<config, loaded, pid_fd, flocks, idVars,
                                sigVars, kbd, listens>>
            ELSE Terminate(p, "failure", <<optionLine(option.opt)>>)
    /\ UNCHANGED <<files, fowner, dirs, disk, cmdlines, signals>>

\* Lines 173-177: setup_config is called on the default config file when
\* config_file is empty, on the file it names otherwise.
ConfigFileOf(name) == IF name = "" THEN DefaultConfigFile ELSE name

\* Lines 87-112: setup_config reads the file, reports a failure, and adds
\* the keys that are missing to the Config.
setup_config_readFile(p) ==
    /\ pc[p] = "readFile"
    /\ LET file == disk[ConfigFileOf(config_file[p])] IN
        /\ loaded' = [loaded EXCEPT ![p] = readFile(file)]
        /\ config' = [config EXCEPT ![p] = FillDefaults(readFile(file))]
        /\ Goto(p, "writeFile", "readFile", readDiagnostic(file))
    /\ UNCHANGED <<fsVars, idVars, sigVars, argv, config_file, pid_fd, kbd,
                   listens>>

\* Lines 114-118: setup_config writes the Config to the file, as the file
\* is by now, reports a failure, and returns.
setup_config_writeFile(p) ==
    /\ pc[p] = "writeFile"
    /\ LET path == ConfigFileOf(config_file[p]) IN
        /\ disk' = [disk EXCEPT ![path] = writeFile(@, config[p], euid[p])]
        /\ Goto(p, "open", "writeFile", writeDiagnostic(disk[path], euid[p]))
    /\ loaded' = [loaded EXCEPT ![p] = EmptyConfig]
    /\ UNCHANGED <<files, fowner, flocks, dirs, cmdlines, idVars, sigVars,
                   argv, config_file, config, pid_fd, kbd, listens>>

\* flock(pid_fd, LOCK_EX | LOCK_NB) is granted when no other open file
\* description holds a lock on the file.
flockGranted(locks, fd, p) == locks[fd] \ {p} = {}

\* open(pid_file, O_CREAT | O_RDWR, 0644): a file that is not there is
\* created in a directory the caller may write to; a file that is there,
\* with its mode 0644, is opened for reading and writing by its owner or by
\* root, whoever owns the directory.
openAllowed(uid, path, fs, owners) ==
    IF fs[path] = NoFile
    THEN MayWrite(uid, PidDirOwner(path))
    ELSE MayWrite(uid, owners[fs[path]])

\* Lines 180-181 and 64-67: config.lookup("pid-file") throws for a setting
\* that is no string, which ends the process; then create_pid opens the
\* file. After a failed open create_pid writes its diagnostic; the instance
\* is then about to return -1 (line 68) and, from main, EXIT_FAILURE.
create_pid_open(p) ==
    /\ pc[p] = "open"
    /\ IF ~isString(config[p], "pid-file")
       THEN /\ Terminate(p, "abort", <<>>)
            /\ UNCHANGED <<files, fowner>>
       ELSE LET path == config[p].str["pid-file"] IN
            IF ~openAllowed(euid[p], path, files, fowner)
            THEN /\ Goto(p, "exit_failure", "open", <<PidNotCreated>>)
                 /\ UNCHANGED <<files, fowner, pid_fd, flocks, idVars,
                                sigVars, config, argv, config_file, loaded,
                                kbd, listens>>
            ELSE /\ LET inode == IF files[path] = NoFile
                                 THEN FreshInode(files, pid_fd)
                                 ELSE files[path] IN
                     /\ files' = [files EXCEPT ![path] = inode]
                     /\ fowner' = IF files[path] = NoFile
                                  THEN [fowner EXCEPT ![inode] = euid[p]]
                                  ELSE fowner
                     /\ pid_fd' = [pid_fd EXCEPT ![p] = inode]
                 /\ Goto(p, "flock", "open", <<>>)
                 /\ UNCHANGED <<flocks, idVars, sigVars, config, argv,
                                config_file, loaded, kbd, listens>>
    /\ UNCHANGED <<dirs, disk, cmdlines, signals>>

\* A main that does not test pid_fd: the run goes on after a failed lock.
create_pid_flock_unchecked(p) ==
    /\ pc[p] = "flock"
    /\ IF flockGranted(flocks, pid_fd[p], p)
       THEN /\ flocks' = [flocks EXCEPT ![pid_fd[p]] = @ \cup {p}]
            /\ Goto(p, "getpwnam", "create_pid", <<>>)
            /\ UNCHANGED pid_fd
       ELSE /\ pid_fd' = [pid_fd EXCEPT ![p] = NoFd]
            /\ Goto(p, "getpwnam", "flock_failed", <<PidNotLocked>>)
            /\ UNCHANGED flocks
    /\ UNCHANGED <<files, fowner, dirs, disk, cmdlines, idVars, sigVars,
                   config, argv, config_file, loaded, kbd, listens>>

\* Lines 71-72 and 77: the non-blocking lock attempt. With the lock
\* create_pid returns the descriptor; after a failed attempt it writes its
\* diagnostic and is about to close the descriptor.
create_pid_flock(p) ==
    /\ pc[p] = "flock"
    /\ IF flockGranted(flocks, pid_fd[p], p)
       THEN /\ flocks' = [flocks EXCEPT ![pid_fd[p]] = @ \cup {p}]
            /\ Goto(p, "getpwnam", "create_pid", <<>>)
       ELSE /\ Goto(p, "flock_failed", "flock", <<PidNotLocked>>)
            /\ UNCHANGED flocks
    /\ UNCHANGED <<files, fowner, dirs, disk, cmdlines, pid_fd, idVars,
                   sigVars, config, argv, config_file, loaded, kbd, listens>>

\* Lines 73-74: close(pid_fd) after the failed lock attempt; create_pid is
\* then about to return -1.
create_pid_close(p) ==
    /\ pc[p] = "flock_failed"
    /\ pid_fd' = [pid_fd EXCEPT ![p] = NoFd]
    /\ flocks' = Released(flocks, p, pid_fd[p])
    /\ Goto(p, "exit_failure", "create_pid_close", <<>>)
    /\ UNCHANGED <<files, fowner, dirs, disk, cmdlines, idVars, sigVars,
                   config, argv, config_file, loaded, kbd, listens>>

\* Lines 68, 74 and 183-185: create_pid returns -1 and main returns
\* EXIT_FAILURE.
main_exit_failure(p) ==
    /\ pc[p] = "exit_failure"
    /\ Terminate(p, "failure", <<>>)
    /\ UNCHANGED <<files, fowner, dirs, disk, cmdlines, signals>>

\* Lines 188-189: config.lookup("user") throws for a setting that is no
\* string, which ends the process with the lock held; getpwnam returns the
\* entry of the user, or NULL.
main_getpwnam(p) ==
    /\ pc[p] = "getpwnam"
    /\ IF ~isString(config[p], "user")
       THEN Terminate(p, "abort", <<>>)
       ELSE /\ pw' = [pw EXCEPT ![p] = getpwnam(config[p].str["user"])]
            /\ Goto(p, "setegid", "getpwnam", <<>>)
            /\ UNCHANGED <<pid_fd, flocks, euid, egid, cwd, sigVars, config,
                           argv, config_file, loaded, kbd, listens>>
    /\ UNCHANGED <<files, fowner, dirs, disk, cmdlines, signals>>

\* setegid and seteuid are granted to root, and to anyone for the id they
\* already have; the kernel can still reject the call (root without
\* CAP_SETGID or CAP_SETUID, an id with no mapping in the user namespace).
setidAllowed(uid, current, id) == uid = RootId \/ id = current

\* A main that calls seteuid where setegid belongs.
main_setegid_as_seteuid(p) ==
    /\ pc[p] = "setegid"
    /\ pw[p] # NULL
    /\ euid' = [euid EXCEPT ![p] = pw[p].pw_uid]
    /\ Goto(p, "seteuid", "seteuid", <<>>)
    /\ UNCHANGED <<fsVars, pid_fd, egid, cwd, pw, sigVars, config, argv,
                   config_file, loaded, kbd, listens>>

\* Line 192: setegid(pw->pw_gid), return value ignored. pw is not checked:
\* for an unknown user the read of pw->pw_gid goes through the null pointer.
\* The page at address 0 is never mapped in a process of the Linux systems
\* the daemon is built for, so the read faults and SIGSEGV ends the process.
main_setegid(p) ==
    /\ pc[p] = "setegid"
    /\ IF pw[p] = NULL
       THEN Terminate(p, "crash", <<>>)
       ELSE /\ \E rejected \in BOOLEAN :
                egid' = [egid EXCEPT ![p] =
                    IF setidAllowed(euid[p], @, pw[p].pw_gid) /\ ~rejected
                    THEN pw[p].pw_gid ELSE @]
            /\ Goto(p, "seteuid", "setegid", <<>>)
            /\ UNCHANGED <<pid_fd, flocks, euid, cwd, pw, sigVars, config,
                           argv, config_file, loaded, kbd, listens>>
    /\ UNCHANGED <<files, fowner, dirs, disk, cmdlines, signals>>

\* Line 193: seteuid(pw->pw_uid), return value ignored.
main_seteuid(p) ==
    /\ pc[p] = "seteuid"
    /\ \E rejected \in BOOLEAN :
        euid' = [euid EXCEPT ![p] =
            IF setidAllowed(@, @, pw[p].pw_uid) /\ ~rejected
            THEN pw[p].pw_uid ELSE @]
    /\ Goto(p, "mkdir", "seteuid", <<>>)
    /\ UNCHANGED <<fsVars, egid, cwd, pw, sigVars, config, argv, config_file,
                   loaded, pid_fd, kbd, listens>>

\* mkdir creates the directory, owned by the caller, when it is absent and
\* the caller may write to the home directory.
mkdirAllowed(uid, home) == MayWrite(uid, HomeOwner(home))

\* A main that returns EXIT_FAILURE when mkdir fails, be it because the
\* directory exists.
main_mkdir_checked(p) ==
    /\ pc[p] = "mkdir"
    /\ LET workdir == WorkdirOf(pw[p].pw_dir) IN
        IF dirs[workdir] = NoDir /\ mkdirAllowed(euid[p], pw[p].pw_dir)
        THEN /\ dirs' = [dirs EXCEPT ![workdir] = euid[p]]
             /\ Goto(p, "chdir", "mkdir", <<>>)
             /\ UNCHANGED <<flocks, idVars, sigVars, config, argv,
                            config_file, loaded, pid_fd, kbd, listens>>
        ELSE /\ Terminate(p, "failure", <<>>)
             /\ UNCHANGED <<dirs, signals>>
    /\ UNCHANGED <<files, fowner, disk, cmdlines>>

\* Lines 196-198: mkdir(<home>/.sidewinderd, S_IRWXU), return value ignored.
main_mkdir(p) ==
    /\ pc[p] = "mkdir"
    /\ LET workdir == WorkdirOf(pw[p].pw_dir) IN
        dirs' = IF dirs[workdir] = NoDir /\ mkdirAllowed(euid[p], pw[p].pw_dir)
                THEN [dirs EXCEPT ![workdir] = euid[p]]
                ELSE dirs
    /\ Goto(p, "chdir", "mkdir", <<>>)
    /\ UNCHANGED <<files, fowner, flocks, disk, cmdlines, idVars, sigVars,
                   config, argv, config_file, loaded, pid_fd, kbd, listens>>

\* chdir enters a directory that exists and that its mode, rwx for the
\* owner only, lets the caller search.
chdirAllowed(uid, owner) == owner # NoDir /\ MayWrite(uid, owner)

\* A main that returns EXIT_FAILURE when chdir fails.
main_chdir_fatal(p) ==
    /\ pc[p] = "chdir"
    /\ LET workdir == WorkdirOf(pw[p].pw_dir) IN
        IF chdirAllowed(euid[p], dirs[workdir])
        THEN /\ cwd' = [cwd EXCEPT ![p] = workdir]
             /\ Goto(p, "kbd", "chdir", <<>>)
             /\ UNCHANGED <<flocks, euid, egid, pw, sigVars, config, argv,
                            config_file, loaded, pid_fd, kbd, listens>>
        ELSE Terminate(p, "failure", <<"Error chdir">>)
    /\ UNCHANGED <<files, fowner, dirs, disk, cmdlines, signals>>

\* Lines 200-202: chdir(workdir); a failure is only reported.
main_chdir(p) ==
    /\ pc[p] = "chdir"
    /\ LET workdir == WorkdirOf(pw[p].pw_dir) IN
        IF chdirAllowed(euid[p], dirs[workdir])
        THEN /\ cwd' = [cwd EXCEPT ![p] = workdir]
             /\ Goto(p, "kbd", "chdir", <<>>)
        ELSE /\ Goto(p, "kbd", "chdir", <<"Error chdir">>)
             /\ UNCHANGED cwd
    /\ UNCHANGED <<fsVars, euid, egid, pw, sigVars, config, argv, config_file,
                   loaded, pid_fd, kbd, listens>>

\* Line 204: Keyboard kbd(&config, pw).
main_kbd(p) ==
    /\ pc[p] = "kbd"
    /\ kbd' = [kbd EXCEPT ![p] = TRUE]
    /\ Goto(p, "loop", "Keyboard", <<>>)
    /\ UNCHANGED <<fsVars, idVars, sigVars, config, argv, config_file, loaded,
                   pid_fd, listens>>

\* Line 208: the loop condition reads the flag; when it is set the call of
\* line 209 begins, otherwise close_pid is called (line 212).
main_loop(p) ==
    /\ pc[p] = "loop"
    /\ IF state[p]
       THEN /\ listens' = [listens EXCEPT ![p] =
                   IF caught[p] /\ @ < 2 THEN @ + 1 ELSE @]
            /\ Goto(p, "listen_key", "listen_key", <<>>)
       ELSE /\ Goto(p, "unlock", "close_pid", <<>>)
            /\ UNCHANGED listens
    /\ UNCHANGED <<fsVars, idVars, sigVars, config, argv, config_file, loaded,
                   pid_fd, kbd>>

\* Line 209: kbd.listen_key() returns.
listen_key_return(p) ==
    /\ pc[p] = "listen_key"
    /\ Goto(p, "loop", "listen_key", <<>>)
    /\ UNCHANGED <<fsVars, idVars, sigVars, config, argv, config_file, loaded,
                   pid_fd, kbd, listens>>

\* Line 81: flock(pid_fd, LOCK_UN).
close_pid_unlock(p) ==
    /\ pc[p] = "unlock"
    /\ flocks' = Released(flocks, p, pid_fd[p])
    /\ Goto(p, "close", "unlock", <<>>)
    /\ UNCHANGED <<files, fowner, dirs, disk, cmdlines, idVars, sigVars,
                   config, argv, config_file, loaded, pid_fd, kbd, listens>>

\* Line 82: close(pid_fd).
close_pid_close(p) ==
    /\ pc[p] = "close"
    /\ flocks' = Released(flocks, p, pid_fd[p])
    /\ pid_fd' = [pid_fd EXCEPT ![p] = NoFd]
    /\ Goto(p, "unlink", "close", <<>>)
    /\ UNCHANGED <<files, fowner, dirs, disk, cmdlines, idVars, sigVars,
                   config, argv, config_file, loaded, kbd, listens>>

\* unlink removes the name when the caller may write to the directory.
unlinkAllowed(uid, path) == MayWrite(uid, PidDirOwner(path))

\* Line 83: unlink(pid_file), return value ignored; close_pid returns.
close_pid_unlink(p) ==
    /\ pc[p] = "unlink"
    /\ LET path == config[p].str["pid-file"] IN
        files' = IF unlinkAllowed(euid[p], path)
                 THEN [files EXCEPT ![path] = NoFile]
                 ELSE files
    /\ Goto(p, "return", "unlink", <<>>)
    /\ UNCHANGED <<fowner, flocks, dirs, disk, cmdlines, idVars, sigVars, config,
                   argv, config_file, loaded, pid_fd, kbd, listens>>

\* Line 214: return EXIT_SUCCESS.
main_return(p) ==
    /\ pc[p] = "return"
    /\ Terminate(p, "success", <<>>)
    /\ UNCHANGED <<files, fowner, dirs, disk, cmdlines, signals>>

\* A sig_handler whose switch has the case of SIGINT only.
sig_handler_int_only(p, sig) ==
    /\ state' = [state EXCEPT ![p] = IF sig = "SIGINT" THEN FALSE ELSE @]
    /\ caught' = [caught EXCEPT ![p] = IF sig = "SIGINT" THEN TRUE ELSE @]
    /\ handlers' = [handlers EXCEPT ![p] = IF resethand[p] THEN @ \ {sig} ELSE @]

\* Lines 50-61: sig_handler stores 0 into the flag for SIGINT and SIGTERM.
\* With SA_RESETHAND among the flags the disposition is back to the default
\* once the handler has been entered.
sig_handler(p, sig) ==
    /\ state' = [state EXCEPT ![p] = FALSE]
    /\ caught' = [caught EXCEPT ![p] = TRUE]
    /\ handlers' = [handlers EXCEPT ![p] = IF resethand[p] THEN @ \ {sig} ELSE @]

\* SIGINT or SIGTERM is delivered to a running instance: sig_handler runs
\* when it is installed for the signal; otherwise the default action ends
\* the process.
Deliver(p, sig) ==
    /\ pc[p] \in Live
    /\ signals < MaxSignals
    /\ signals' = signals + 1
    /\ IF sig \in handlers[p]
       THEN /\ sig_handler(p, sig)
            /\ UNCHANGED <<pc, status, out, pid_fd, flocks, idVars, runs,
                           resethand, config, argv, config_file, loaded, kbd,
                           did, listens>>
       ELSE Terminate(p, "killed", <<>>)
    /\ UNCHANGED <<files, fowner, dirs, disk, cmdlines>>

(* ---------------------------- specification --------------------------- *)

Next ==
    \E p \in Procs :
        \/ Start(p)
        \/ sigaction_int(p)
        \/ sigaction_term(p)
        \/ set_state(p)
        \/ main_getopt(p)
        \/ setup_config_readFile(p)
        \/ setup_config_writeFile(p)
        \/ create_pid_open(p)
        \/ create_pid_flock(p)
        \/ create_pid_close(p)
        \/ main_exit_failure(p)
        \/ main_getpwnam(p)
        \/ main_setegid(p)
        \/ main_seteuid(p)
        \/ main_mkdir(p)
        \/ main_chdir(p)
        \/ main_kbd(p)
        \/ main_loop(p)
        \/ listen_key_return(p)
        \/ close_pid_unlock(p)
        \/ close_pid_close(p)
        \/ close_pid_unlink(p)
        \/ main_return(p)
        \/ \E sig \in Sigs : Deliver(p, sig)

Spec == Init /\ [][Next]_vars

(* ---------------- the specification of setup_config ------------------ *)

\* Config files for the runs of setup_config alone: every combination of
\* the four keys present or missing, a user of the wrong type, a key the
\* daemon does not know, in a file that is well-formed, malformed after the
\* settings given, or unreadable, on a writable or read-only file system.
WithOrWithout(cfgs, name, value) ==
    cfgs \cup {addString(c, name, value) : c \in cfgs}

SomeConfigs ==
    LET users == {EmptyConfig, addString(EmptyConfig, "user", "alice"),
                  addInt(EmptyConfig, "user", 5)}
        profiles == users \cup {addInt(c, "profile", 3) : c \in users}
        delays == profiles \cup
                  {addBoolean(c, "capture_delays", FALSE) : c \in profiles}
        pids == WithOrWithout(delays, "pid-file", AltPidFile)
    IN  WithOrWithout(pids, "layout", "de")

ConfigFiles ==
    [kind : {"ok", "malformed"}, cfg : SomeConfigs, readonly : BOOLEAN]
        \cup [kind : {"unreadable"}, cfg : {EmptyConfig}, readonly : BOOLEAN]

\* The command lines of the runs of setup_config: none, --config alone
\* and after another option, and the options that only print.
CmdLines ==
    {<<>>,
     <<Option("c", AltConfigFile)>>,
     <<Option("v", ""), Option("c", AltConfigFile)>>,
     <<Option("d", ""), Option("?", "")>>,
     <<Option(":", "")>>}

\* The config file a command line makes setup_config use.
NamedBy(cmdline) ==
    IF \E i \in 1..Len(cmdline) : cmdline[i].opt = "c"
    THEN AltConfigFile ELSE DefaultConfigFile

\* All instances are launched with the same command line; the config file
\* it names is any of ConfigFiles and the other one does not exist.
InitConfig ==
    /\ InitFs
    /\ InitProcs
    /\ \E cmdline \in CmdLines, file \in ConfigFiles :
          /\ cmdlines = {cmdline}
          /\ disk = OnlyFile(NamedBy(cmdline), file)

\* The instances run up to the return of setup_config.
NextConfig ==
    \E p \in Procs :
        \/ Start(p)
        \/ sigaction_int(p)
        \/ sigaction_term(p)
        \/ set_state(p)
        \/ main_getopt(p)
        \/ setup_config_readFile(p)
        \/ setup_config_writeFile(p)

SpecConfig == InitConfig /\ [][NextConfig]_vars

(* ------------- the specification of the shutdown by signal ------------ *)

\* The positions of the capture loop (lines 208-210).
LoopPcs == {"loop", "listen_key"}

\* The statements of main, create_pid and close_pid of the instance in
\* slot p.
Main(p) ==
    \/ sigaction_int(p)
    \/ sigaction_term(p)
    \/ set_state(p)
    \/ main_getopt(p)
    \/ setup_config_readFile(p)
    \/ setup_config_writeFile(p)
    \/ create_pid_open(p)
    \/ create_pid_flock(p)
    \/ create_pid_close(p)
    \/ main_exit_failure(p)
    \/ main_getpwnam(p)
    \/ main_setegid(p)
    \/ main_seteuid(p)
    \/ main_mkdir(p)
    \/ main_chdir(p)
    \/ main_kbd(p)
    \/ main_loop(p)
    \/ listen_key_return(p)
    \/ close_pid_unlock(p)
    \/ close_pid_close(p)
    \/ close_pid_unlink(p)
    \/ main_return(p)

\* The runs in which SIGINT and SIGTERM are delivered to an instance only
\* while it is in the capture loop.
NextLive ==
    \E p \in Procs :
        \/ Start(p)
        \/ Main(p)
        \/ \E sig \in Sigs : pc[p] \in LoopPcs /\ Deliver(p, sig)

\* A process that is running keeps running: its next statement is executed
\* eventually, and so every listen_key call returns. Nothing obliges a new
\* instance to be launched or a signal to be sent.
SpecLive ==
    Init /\ [][NextLive]_vars /\ \A p \in Procs : WF_vars(Main(p))

(* ----------------------------- properties ----------------------------- *)

\* The history of an instance.
Has(p, op) == \E i \in 1..Len(did[p]) : did[p][i] = op
Count(p, op) == Cardinality({i \in 1..Len(did[p]) : did[p][i] = op})
Precedes(p, a, b) ==
    \A j \in 1..Len(did[p]) :
        did[p][j] = b => \E i \in 1..(j - 1) : did[p][i] = a
Said(p, line) == \E i \in 1..Len(out[p]) : out[p][i] = line

\* The instance in slot p is between its successful create_pid and its
\* call of close_pid.
Holding(p) ==
    pc[p] \in {"getpwnam", "setegid", "seteuid", "mkdir", "chdir", "kbd",
               "loop", "listen_key"}

\* The instance in slot p takes a step of main (no signal is delivered).
Steps(p) == pc'[p] # pc[p] /\ signals' = signals

\* The instance in slot p ends in this step, by itself.
Ends(p) == Steps(p) /\ pc[p] \in Live /\ pc'[p] = "exited"

\* The identity of the instance is the one of the configured user.
Dropped(p) ==
    /\ pw[p] # NULL
    /\ egid[p] = pw[p].pw_gid
    /\ euid[p] = pw[p].pw_uid

(* ------------ the specification of the working directory ------------- *)

\* The history of an instance that is about to create its working directory.
BeforeMkdir ==
    <<"sigaction", "sigaction", "set_state", "getopt", "readFile",
      "writeFile", "open", "create_pid", "getpwnam", "setegid", "seteuid">>

\* The working directories as earlier runs can have left them: absent, or
\* made by an instance that ran as root or as the owner of the home.
WorkdirStates ==
    {ds \in [Workdirs -> {NoDir} \cup StartIds] :
        \A h \in Homes : ds[WorkdirOf(h)] \in {NoDir, RootId, HomeOwner(h)}}

\* One instance is at line 196, with the PID file locked: it was launched
\* with the identity id, its PID file is one that identity can create, the
\* configured user is any user of the identity database, and setegid and
\* seteuid have changed the identity or have not.
InitWorkdir ==
    \E p \in Procs, id \in StartIds, user \in DOMAIN Passwd, drop \in BOOLEAN :
        LET path == IF id = RootId THEN DefaultPidFile ELSE AltPidFile
            cfg == FillDefaults(addString(addString(EmptyConfig,
                       "pid-file", path), "user", user))
            uid == IF drop /\ id = RootId THEN Passwd[user].pw_uid ELSE id
            At(v, idle) == [q \in Procs |-> IF q = p THEN v ELSE idle]
            file == [kind |-> "ok", cfg |-> cfg, readonly |-> FALSE]
        IN  /\ files = [f \in PidPaths |-> IF f = path THEN 1 ELSE NoFile]
            /\ fowner = [i \in Inodes |-> IF i = 1 THEN id ELSE RootId]
            /\ flocks = [i \in Inodes |-> IF i = 1 THEN {p} ELSE {}]
            /\ dirs \in WorkdirStates
            /\ disk = OnlyFile(DefaultConfigFile, file)
            /\ cmdlines = {<<>>}
            /\ runs = 1
            /\ signals = 0
            /\ pc = At("mkdir", "idle")
            /\ state = At(TRUE, FALSE)
            /\ handlers = At(Sigs, {})
            /\ resethand = At(FALSE, FALSE)
            /\ argv = At(<<>>, <<>>)
            /\ config_file = At("", "")
            /\ config = At(cfg, EmptyConfig)
            /\ loaded = At(EmptyConfig, EmptyConfig)
            /\ pid_fd = At(1, NoFd)
            /\ pw = At(Passwd[user], NULL)
            /\ euid = At(uid, RootId)
            /\ egid = At(uid, RootId)
            /\ cwd = At("/", "/")
            /\ kbd = At(FALSE, FALSE)
            /\ status = At("none", "none")
            /\ out = At(writeDiagnostic(file, id), <<>>)
            /\ did = At(BeforeMkdir, <<>>)
            /\ caught = At(FALSE, FALSE)
            /\ listens = At(0, 0)

\* Lines 195-202 are performed once more by the instance that has just
\* performed them.
prepareWorkdir_again(p) ==
    /\ pc[p] = "kbd"
    /\ Count(p, "chdir") < 2
    /\ pc' = [pc EXCEPT ![p] = "mkdir"]
    /\ UNCHANGED <<fsVars, idVars, sigVars, runs, signals, config, argv,
                   config_file, loaded, pid_fd, kbd, status, out, did, listens>>

NextWorkdir ==
    \E p \in Procs :
        \/ main_mkdir(p)
        \/ main_chdir(p)
        \/ prepareWorkdir_again(p)

SpecWorkdir == InitWorkdir /\ [][NextWorkdir]_vars

\* C1: at no time are two instances both between a successful create_pid
\* and their own close_pid on the same PID path.
C1_MutualExclusion ==
    \A p, q \in Procs :
        (p # q /\ Holding(p) /\ Holding(q)) =>
            config[p].str["pid-file"] # config[q].str["pid-file"]

\* The instance in slot q runs with the lock it got on the PID path `path'.
HoldsPath(q, path) == Holding(q) /\ config[q].str["pid-file"] = path

\* C2, without waiting: the lock attempt and the steps that follow a failed
\* one (the close of the descriptor, the return of the failure status) can
\* always be taken, whoever holds a lock.
C2_NoWait ==
    \A p \in Procs :
        /\ pc[p] = "flock" => ENABLED create_pid_flock(p)
        /\ pc[p] = "flock_failed" => ENABLED create_pid_close(p)
        /\ pc[p] = "exit_failure" => ENABLED main_exit_failure(p)

\* C2, the loser: when an instance calls flock in a create_pid on a PID
\* path that another instance has acquired and keeps holding, the call
\* fails in that very step with the diagnostic of the failed lock and leaves
\* the locks as they are, and the next steps of the instance are the close
\* of its descriptor and the return of the failure status.
C2_LoserFailsAtOnce ==
    \A p \in Procs :
        /\ (pc[p] = "flock" /\ Steps(p)
                /\ \E q \in Procs \ {p} :
                      HoldsPath(q, config[p].str["pid-file"])) =>
              /\ pc'[p] = "flock_failed"
              /\ Said(p, PidNotLocked)'
              /\ flocks' = flocks
        /\ (pc[p] = "flock_failed" /\ Steps(p)) =>
              /\ pc'[p] = "exit_failure"
              /\ pid_fd'[p] = NoFd
              /\ flocks' = flocks
        /\ (pc[p] = "exit_failure" /\ Steps(p)) =>
              /\ pc'[p] = "exited"
              /\ status'[p] = "failure"
              /\ flocks' = flocks

\* C2: of two instances racing for the same PID path, with the winner
\* holding on to its lock, exactly one create_pid succeeds; the other
\* returns failure within the same call, without waiting.
C2_RaceHasOneWinner == []C2_NoWait /\ [][C2_LoserFailsAtOnce]_vars

\* C3: once sig_handler has run for SIGINT or SIGTERM, at any point after
\* the handlers were registered, the flag reads false, and at most one more
\* listen_key call begins.
C3_SignalStopsLoop ==
    \A p \in Procs :
        (caught[p] /\ pc[p] \in Live) => (~state[p] /\ listens[p] <= 1)

\* C4: every way an instance ends after a successful create_pid, other than
\* being killed by a signal, has passed through close_pid exactly once.
C4_ReleasedOnEveryExit ==
    [][\A p \in Procs :
        (Ends(p) /\ Has(p, "create_pid")) =>
            (Count(p, "close_pid") = 1 /\ Count(p, "unlink") = 1)]_vars

\* C5: the PID file is opened before the privilege drop, and whatever is
\* created under the home of the user (the working directory, the
\* collaborator) is created with the identity of the user, also when
\* setegid or seteuid is rejected: no working directory belongs to anyone
\* but the user.
C5_PrivilegeOrdering ==
    /\ \A p \in Procs :
        /\ Precedes(p, "open", "setegid") /\ Precedes(p, "open", "seteuid")
        /\ (Has(p, "mkdir") \/ kbd[p]) => Dropped(p)
    /\ \A u \in DOMAIN Passwd :
        dirs[WorkdirOf(Passwd[u].pw_dir)] \in {NoDir, Passwd[u].pw_uid}

\* C6: when the configured user does not exist, or setegid or seteuid is
\* rejected, the instance ends with a failure status after close_pid: the
\* collaborator is never constructed and the loop never runs.
C6_FailedDropAborts ==
    [][\A p \in Procs :
        /\ (kbd[p] \/ pc[p] \in {"loop", "listen_key"})' => Dropped(p)'
        /\ (Ends(p) /\ Has(p, "getpwnam") /\ ~Dropped(p))
              => (status'[p] = "failure" /\ Has(p, "unlink"))]_vars

\* C7: when close_pid returns, the PID path names no file and the instance
\* holds no lock, and a create_pid that then creates the file finds it
\* unlocked.
C7_ReleaseRemovesFile ==
    [][\A p \in Procs :
        /\ (pc[p] = "unlink" /\ Steps(p)) =>
              /\ files'[config[p].str["pid-file"]] = NoFile
              /\ \A i \in Inodes : p \notin flocks'[i]
        /\ (pc[p] = "open" /\ pc'[p] = "flock"
                /\ files[config[p].str["pid-file"]] = NoFile) =>
              flockGranted(flocks', pid_fd'[p], p)]_vars

\* C8: a create_pid that fails (the file cannot be opened, or it is locked
\* by another instance) writes its diagnostic, closes the descriptor it
\* got, and main returns the failure status: no other step of the instance
\* follows, hence no privilege drop, working directory, collaborator or
\* listen_key call, and the PID file, the locks and the directories stay as
\* they were. The instance does not end in another way than with the
\* failure status or by a signal that kills it first, never with the
\* success status. An instance ends with the success status only from the
\* end of main, after the loop and close_pid.
C8_FailedAcquireExits ==
    [][\A p \in Procs :
        /\ (Steps(p) /\ pc[p] = "open" /\ isString(config[p], "pid-file")
                /\ ~openAllowed(euid[p], config[p].str["pid-file"], files,
                                fowner))
              => (pc'[p] = "exit_failure" /\ Said(p, PidNotCreated)')
        /\ (Steps(p) /\ pc[p] = "flock"
                /\ ~flockGranted(flocks, pid_fd[p], p))
              => (pc'[p] = "flock_failed" /\ Said(p, PidNotLocked)')
        /\ (Steps(p) /\ pc[p] = "flock_failed") => pc'[p] = "exit_failure"
        /\ (Steps(p) /\ pc[p] = "exit_failure") => status'[p] = "failure"
        /\ (Steps(p) /\ pc'[p] \in {"flock_failed", "exit_failure"}) =>
              files' = files /\ flocks' = flocks /\ dirs' = dirs
        /\ (pc[p] \in {"flock_failed", "exit_failure"}
                /\ pc'[p] # pc[p]) =>
              /\ pc'[p] \in {"exit_failure", "exited"}
              /\ pc'[p] = "exited" => status'[p] \in {"failure", "killed"}
        /\ (Ends(p) /\ status'[p] = "failure") =>
              /\ pc[p] = "exit_failure"
              /\ \A op \in {"setegid", "seteuid", "mkdir", "chdir",
                            "Keyboard", "listen_key", "unlink"} : ~Has(p, op)
              /\ files' = files /\ flocks' = flocks /\ dirs' = dirs
        /\ (Ends(p) /\ status'[p] = "success") =>
              /\ pc[p] = "return"
              /\ ~state[p]
              /\ Has(p, "Keyboard")
              /\ Count(p, "close_pid") = 1 /\ Count(p, "unlink") = 1]_vars

\* C8 witness: an instance has ended with a failure status on a lock it
\* could not get, having closed its descriptor, and the other instance,
\* which held the lock, has since returned from main with the success
\* status.
C8_Witness ==
    \E p, q \in Procs :
        /\ status[p] = "failure" /\ pc[p] = "exited"
        /\ out[p] = <<PidNotLocked>>
        /\ status[q] = "success" /\ pc[q] = "exited"

\* The four keys and their documented defaults.
Keys == {"user", "profile", "capture_delays", "pid-file"}

IsDefault(cfg, name) ==
    CASE name = "user" ->
            "user" \in DOMAIN cfg.str /\ cfg.str["user"] = "root"
      [] name = "profile" ->
            "profile" \in DOMAIN cfg.int /\ cfg.int["profile"] = 1
      [] name = "capture_delays" ->
            "capture_delays" \in DOMAIN cfg.bool /\ cfg.bool["capture_delays"]
      [] name = "pid-file" ->
            /\ "pid-file" \in DOMAIN cfg.str
            /\ cfg.str["pid-file"] = "/var/run/sidewinderd.pid"

\* What setup_config does to a loaded config that misses a key: all four
\* keys are present afterwards and each missing one has its default; the
\* file holds the configuration of the instance when `written' is true.
DefaultsFilled(p, written) ==
    LET path == ConfigFileOf(config_file[p]) IN
    (pc[p] = "writeFile" /\ Steps(p)
            /\ \E k \in Keys : ~exists(loaded[p], k)) =>
        /\ \A k \in Keys : exists(config'[p], k)
        /\ \A k \in Keys : ~exists(loaded[p], k) => IsDefault(config'[p], k)
        /\ written => (disk'[path].kind = "ok" /\ disk'[path].cfg = config'[p])

\* C9 as claimed: after setup_config of a config that misses a key, all
\* four keys are present, each missing one with its default, and the file
\* on disk holds the values of the configuration in memory.
C9_DefaultsInMemoryAndOnDisk ==
    [][\A p \in Procs : DefaultsFilled(p, TRUE)]_vars

\* C9 as amended: after setup_config of a config that misses a key, all
\* four keys are present, each missing one with its default, and the file
\* on disk holds the values of the configuration in memory whenever the
\* file could be written.
C9_DefaultsFilledFileBestEffort ==
    [][\A p \in Procs :
        DefaultsFilled(p, canWriteFile(disk[ConfigFileOf(config_file[p])],
                                       euid[p]))]_vars

\* C9 witness: the file held only profile = 3; the instance has it with
\* the three defaults added, and so has the file.
C9_Witness ==
    \E p \in Procs :
        /\ pc[p] = "open"
        /\ config[p] = addString(addBoolean(addInt(addString(EmptyConfig,
               "user", "root"), "profile", 3), "capture_delays", TRUE),
               "pid-file", "/var/run/sidewinderd.pid")
        /\ disk[DefaultConfigFile].kind = "ok"
        /\ disk[DefaultConfigFile].cfg = config[p]

\* C10: an instance calls seteuid only after it has called setegid.
C10_GroupBeforeUser ==
    \A p \in Procs : Precedes(p, "setegid", "seteuid")

\* C10 witness: an instance has dropped both ids to those of alice.
C10_Witness ==
    \E p \in Procs :
        /\ Has(p, "setegid") /\ Has(p, "seteuid")
        /\ egid[p] = Passwd["alice"].pw_gid
        /\ euid[p] = Passwd["alice"].pw_uid

\* The operations of ops all occur in the history of the instance, and every
\* occurrence of one lies before every occurrence of the next.
InOrder(p, ops) ==
    /\ \A k \in 1..Len(ops) : Has(p, ops[k])
    /\ \A k \in 1..(Len(ops) - 1) :
          \A i, j \in 1..Len(did[p]) :
              (did[p][i] = ops[k] /\ did[p][j] = ops[k + 1]) => i < j

\* C11: an instance that has reached the capture loop has gone through
\* config loaded, PID lock acquired, privileges dropped, signal handlers
\* installed, collaborator constructed, loop running, in this order: the
\* handlers are installed after the privilege drop and before the first
\* listen_key call, and the instance has the identity of the configured
\* user.
C11_HandlersAfterDrop ==
    \A p \in Procs :
        Has(p, "listen_key") =>
            /\ InOrder(p, <<"readFile", "writeFile", "create_pid", "setegid",
                            "seteuid", "sigaction", "Keyboard", "listen_key">>)
            /\ Dropped(p)

\* The diagnostic of a failed write (line 117).
WriteFailed == "I/O error while writing file."

AllKeys(cfg) == \A k \in Keys : exists(cfg, k)

\* What can be seen of exactly one write of the config file by the step of
\* the instance in slot p: either the file now holds the configuration of
\* the instance and no failure is reported, or the file is as it was and
\* exactly one failure is reported.
WroteOnce(p) ==
    \/ /\ disk' = [disk EXCEPT ![ConfigFileOf(config_file[p])] =
                       [kind |-> "ok", cfg |-> config'[p], readonly |-> FALSE]]
       /\ ~Said(p, WriteFailed)'
    \/ /\ disk' = disk
       /\ Cardinality({i \in 1..Len(out'[p]) : out'[p][i] = WriteFailed}) = 1

\* C12 as claimed: when the loaded config holds all four keys, setup_config
\* does not write the config file (the file stays as it was and no write
\* fails); when a default was added it attempts exactly one write; in both
\* cases the run goes on to the lookup of the PID file.
C12_WriteOnlyIfDefaultAdded ==
    [][\A p \in Procs :
        (pc[p] = "writeFile" /\ Steps(p)) =>
            /\ pc'[p] = "open"
            /\ IF AllKeys(loaded[p])
               THEN disk' = disk /\ ~Said(p, WriteFailed)'
               ELSE WroteOnce(p)]_vars

\* C12 as amended: setup_config attempts exactly one write of the config
\* file in every run, whether or not a default was added, and a failed
\* write does not abort bootstrap: the run goes on to the lookup of the PID
\* file.
C12_AlwaysOneWrite ==
    [][\A p \in Procs :
        /\ (pc[p] = "readFile" /\ Steps(p)) =>
              (pc'[p] = "writeFile" /\ disk' = disk)
        /\ (pc[p] = "writeFile" /\ Steps(p)) =>
              (pc'[p] = "open" /\ WroteOnce(p))]_vars

\* C12 witness: the file held all four keys, none at its default, and was
\* malformed after them; setup_config has reported the parse error, added
\* nothing, and written the file, which is well-formed now.
C12_Witness ==
    \E p \in Procs :
        /\ pc[p] = "open"
        /\ Said(p, "Parse error")
        /\ config[p] = addString(addBoolean(addInt(addString(EmptyConfig,
               "user", "alice"), "profile", 3), "capture_delays", FALSE),
               "pid-file", AltPidFile)
        /\ disk[ConfigFileOf(config_file[p])] =
              [kind |-> "ok", cfg |-> config[p], readonly |-> FALSE]

\* C13, the flag is read between listen_key calls only: from a listen_key
\* call the instance goes back to the loop condition, whatever the flag
\* holds, and it leaves the loop only from the loop condition.
C13_FlagReadBetweenCalls ==
    \A p \in Procs :
        /\ (pc[p] = "listen_key" /\ Steps(p)) => pc'[p] = "loop"
        /\ (pc[p] \in LoopPcs /\ pc'[p] = "unlock") =>
              (pc[p] = "loop" /\ ~state[p])

\* C13, the exit: an instance that returns the success status has run
\* close_pid with its unlock, close and unlink, once each and in this order.
C13_CleanExit ==
    \A p \in Procs :
        (Ends(p) /\ status'[p] = "success") =>
            /\ InOrder(p, <<"Keyboard", "close_pid", "unlock", "close",
                            "unlink">>)
            /\ \A op \in {"close_pid", "unlock", "close", "unlink"} :
                  Count(p, op) = 1

\* C13: when SIGINT or SIGTERM has been delivered to an instance in the
\* capture loop, and every listen_key call returns, the instance eventually
\* leaves the loop, runs close_pid (unlock, close, unlink) and ends with
\* the success status; the flag is read between listen_key calls only.
C13_ShutdownLiveness ==
    /\ \A p \in Procs :
          (pc[p] \in LoopPcs /\ caught[p]) ~>
              (pc[p] = "exited" /\ status[p] = "success")
    /\ [][C13_FlagReadBetweenCalls /\ C13_CleanExit]_vars

\* C14: when the config file cannot be read or is malformed, setup_config
\* returns normally with all four keys present at their defaults, and the
\* run goes on towards the acquisition of the PID lock.
C14_BrokenConfigGivesDefaults ==
    [][\A p \in Procs :
        /\ (pc[p] = "readFile" /\ Steps(p)
                /\ disk[ConfigFileOf(config_file[p])].kind
                        \in {"unreadable", "malformed"}) =>
              /\ pc'[p] = "writeFile"
              /\ \A k \in Keys : IsDefault(config'[p], k)
        /\ (pc[p] = "writeFile" /\ Steps(p)
                /\ (Said(p, "Parse error")
                        \/ Said(p, "I/O error while reading file."))) =>
              /\ pc'[p] = "open"
              /\ \A k \in Keys : IsDefault(config'[p], k)]_vars

\* Every setting of the config `was', recognized or not, is a setting of
\* cfg with the same type and the same value.
Kept(was, cfg) ==
    \A type \in {"str", "int", "bool"} :
        \A k \in DOMAIN was[type] :
            k \in DOMAIN cfg[type] /\ cfg[type][k] = was[type][k]

\* C15: setup_config changes nothing that was set: every key of the loaded
\* config, recognized or not, has its loaded value afterwards, in the
\* configuration of the instance and in the file.
C15_DefaultsKeepLoaded ==
    [][\A p \in Procs :
        LET path == ConfigFileOf(config_file[p]) IN
        /\ (pc[p] = "readFile" /\ Steps(p)) =>
              Kept(readFile(disk[path]), config'[p])
        /\ (pc[p] = "writeFile" /\ Steps(p)) =>
              /\ Kept(loaded[p], config'[p])
              /\ Kept(loaded[p], disk'[path].cfg)]_vars

\* C15 witness: the file held a user, a profile and a key the daemon does
\* not know; the instance and the rewritten file have the three as loaded,
\* next to the two defaults that were missing.
C15_Witness ==
    \E p \in Procs :
        /\ pc[p] = "open"
        /\ config[p] = addString(addBoolean(addString(addInt(addString(
               EmptyConfig, "user", "alice"), "profile", 3), "layout", "de"),
               "capture_delays", TRUE), "pid-file", DefaultPidFile)
        /\ disk[ConfigFileOf(config_file[p])] =
              [kind |-> "ok", cfg |-> config[p], readonly |-> FALSE]

\* A signal is delivered and handled: sig_handler runs (the default action
\* would end the process and set its status).
Handled == signals' # signals /\ status' = status

\* C16: wherever in main an instance is when sig_handler runs for SIGINT or
\* SIGTERM, the handler stores `not running' into the flag of the instance
\* and does nothing else: the PID file, the locks, the descriptor, the
\* configuration, the identity, the current directory and the position in
\* main are as before, and nothing is written.
C16_HandlerOnlyStoresFlag ==
    [][Handled =>
        /\ \E p \in Procs :
              /\ pc[p] \in Live
              /\ ~state'[p]
              /\ \A q \in Procs \ {p} : state'[q] = state[q]
        /\ UNCHANGED <<files, fowner, flocks, dirs, disk, cmdlines, pid_fd,
                       config, argv, config_file, loaded, pw, euid, egid, cwd,
                       kbd, pc, out, did>>]_vars

\* C16 witness: sig_handler has run in an instance that was on its way to
\* the loop, after the privilege drop: the flag is false, and the instance
\* still has its lock, its configuration and the identity of alice.
C16_Witness ==
    \E p \in Procs :
        /\ pc[p] \in {"mkdir", "chdir", "kbd"}
        /\ caught[p] /\ ~state[p]
        /\ pid_fd[p] \in Inodes /\ flocks[pid_fd[p]] = {p}
        /\ config[p] = FillDefaults(addString(EmptyConfig, "user", "alice"))
        /\ euid[p] = Passwd["alice"].pw_uid

\* C17: whether mkdir and chdir succeed or fail, the instance goes on: from
\* mkdir to chdir without a diagnostic, also when the directory exists
\* already, from chdir to the construction of the collaborator with at most
\* the diagnostic of the failed chdir (none when the directory is one of the
\* caller's own), then into the capture loop, holding the PID lock all the
\* way.
C17_WorkdirFailureNonFatal ==
    [][\A p \in Procs :
        (Steps(p) /\ pc[p] \in {"mkdir", "chdir", "kbd", "loop"}) =>
            /\ pc[p] = "mkdir" => (pc'[p] = "chdir" /\ out'[p] = out[p])
            /\ pc[p] = "chdir" =>
                  /\ pc'[p] = "kbd"
                  /\ \/ out'[p] = out[p]
                     \/ out'[p] = Append(out[p], "Error chdir")
                  /\ dirs[WorkdirOf(pw[p].pw_dir)] = euid[p] =>
                        /\ out'[p] = out[p]
                        /\ cwd'[p] = WorkdirOf(pw[p].pw_dir)
            /\ pc[p] = "kbd" => (pc'[p] = "loop" /\ kbd'[p])
            /\ (pc[p] = "loop" /\ state[p]) => pc'[p] = "listen_key"
            /\ pid_fd'[p] = pid_fd[p]
            /\ pid_fd[p] \in Inodes
            /\ p \in flocks[pid_fd[p]] /\ p \in flocks'[pid_fd[p]]]_vars

\* C17 witness: an instance is in a listen_key call with the collaborator
\* constructed and the PID lock held, after a mkdir that could not create
\* the directory and a chdir that failed.
C17_Witness ==
    \E p \in Procs :
        /\ pc[p] = "listen_key" /\ kbd[p]
        /\ Said(p, "Error chdir") /\ cwd[p] = "/"
        /\ dirs[WorkdirOf(pw[p].pw_dir)] = NoDir
        /\ flocks[pid_fd[p]] = {p}

\* The instance in slot p has performed mkdir and chdir once, and the
\* change of directory succeeded.
PreparedOnce(p) == Count(p, "chdir") = 1 /\ ~Said(p, "Error chdir")

\* C18, the state after the step succeeded: the directory is there, owned
\* by the user or by root, and it is the current directory.
C18_Prepared ==
    \A p \in Procs :
        (Has(p, "chdir") /\ ~Said(p, "Error chdir")) =>
            /\ cwd[p] = WorkdirOf(pw[p].pw_dir)
            /\ dirs[cwd[p]] \in {euid[p], pw[p].pw_uid}

\* C18, the second time: when the step has succeeded once, mkdir and chdir
\* performed again change neither the directories, nor the current
\* directory, nor the output: no failure is reported and the instance goes
\* on.
C18_AgainChangesNothing ==
    \A p \in Procs :
        (PreparedOnce(p) /\ Steps(p) /\ pc[p] \in {"mkdir", "chdir"}) =>
            /\ pc'[p] = IF pc[p] = "mkdir" THEN "chdir" ELSE "kbd"
            /\ dirs' = dirs /\ cwd' = cwd /\ out' = out
            /\ euid' = euid /\ egid' = egid

\* C18: mkdir-then-chdir performed twice in a row by the same identity,
\* the first time with success, succeeds the second time too and leaves
\* the state of the first: the same directory with the same owner, and the
\* current directory in it.
C18_WorkdirIdempotent ==
    []C18_Prepared /\ [][C18_AgainChangesNothing]_vars

\* C18 witness: alice's instance has performed the step twice without a
\* failure; the directory is its own and it is in it.
C18_Witness ==
    \E p \in Procs :
        /\ pc[p] = "kbd"
        /\ did[p] = BeforeMkdir \o <<"mkdir", "chdir", "mkdir", "chdir">>
        /\ out[p] = <<>>
        /\ euid[p] = Passwd["alice"].pw_uid
        /\ cwd[p] = "/home/alice/.sidewinderd"
        /\ dirs[cwd[p]] = euid[p] /\ dirs["/root/.sidewinderd"] = NoDir

\* C19, the state: while an instance is between its successful create_pid
\* and its close_pid, its PID path names the file the instance holds
\* locked.
C19_PathNamesHeldFile ==
    \A p \in Procs :
        Holding(p) =>
            /\ files[config[p].str["pid-file"]] = pid_fd[p]
            /\ p \in flocks[pid_fd[p]]

\* C19, the step: the unlink of an instance's close_pid never removes the
\* PID path of another instance that is running with the lock.
C19_NoUnlinkUnderHolder ==
    \A p, q \in Procs :
        (p # q /\ pc[p] = "unlink" /\ Steps(p) /\ Holding(q)) =>
            files'[config[q].str["pid-file"]] = files[config[q].str["pid-file"]]

\* C19: in every interleaving of the instances, an instance between its
\* successful create_pid and its close_pid finds its PID path naming the
\* file it holds locked, and no close_pid of another instance unlinks that
\* path.
C19_PidPathStaysBound ==
    []C19_PathNamesHeldFile /\ [][C19_NoUnlinkUnderHolder]_vars
====
